---- MODULE Spec2Model ----
(***************************************************************************)
(* Model of fastapi_excel_app.py: the ExcelProcessor (sheet segmentation,  *)
(* table cleaning, the table dictionary, row labels and row sums) and the  *)
(* HTTP handlers built on it.                                              *)
(*                                                                         *)
(* A text is a sequence of one-character strings, so that str.strip,       *)
(* str.replace, float() and the f-string of the fallback name are computed *)
(* character by character.  A cell is a tagged value (NaN, str, number,    *)
(* other object).  A DataFrame is its index labels, its column labels and  *)
(* its rows of cells.  A Python dict is the sequence of its items in       *)
(* insertion order.                                                        *)
(***************************************************************************)
EXTENDS Integers, Sequences, FiniteSets, TLC

VARIABLES
    file,             \* the workbook resource at EXCEL_FILE_PATH (environment)
    excel_processor,  \* the module global: None, or the ExcelProcessor object
    pc,               \* "boot" before startup_event has run, "serving" after
    response,         \* the result of the last request handled
    loads,            \* number of calls of load_excel_data so far
    call              \* the method call under study: [fn, in, out]

vars == <<file, excel_processor, pc, response, loads, call>>

-----------------------------------------------------------------------------
(* Bounds of the inputs that are enumerated.                               *)

MaxSheets == 2      \* sheets of a workbook
MaxTotalRows == 2   \* rows of a workbook, all its sheets together
MaxSegRows == 3     \* rows of the sheet given to identify_tables_in_sheet
MaxCleanRows == 2   \* rows of the frame given to clean_table
MaxCleanCols == 2   \* columns of the frame given to clean_table
MaxSumCells == 3    \* value cells (rows x value columns) of the summed table

-----------------------------------------------------------------------------
(* Texts (Python str).                                                     *)

DigitChars == <<"0", "1", "2", "3", "4", "5", "6", "7", "8", "9">>

IsDigit(c) == \E d \in 1..10 : DigitChars[d] = c

DigitVal(c) == (CHOOSE d \in 1..10 : DigitChars[d] = c) - 1

\* str.isspace for the characters modelled
IsSpace(c) == c = " "

RECURSIVE LStrip(_)
LStrip(s) ==
    IF s # <<>> /\ IsSpace(Head(s)) THEN LStrip(Tail(s)) ELSE s

RECURSIVE RStrip(_)
RStrip(s) ==
    IF s # <<>> /\ IsSpace(s[Len(s)]) THEN RStrip(SubSeq(s, 1, Len(s) - 1)) ELSE s

\* str.strip(): leading and trailing whitespace removed
Strip(s) == RStrip(LStrip(s))

\* str.replace(c, ''): every occurrence of the character removed
RECURSIVE Remove(_, _)
Remove(s, c) ==
    IF s = <<>> THEN <<>>
    ELSE IF Head(s) = c THEN Remove(Tail(s), c)
    ELSE <<Head(s)>> \o Remove(Tail(s), c)

RECURSIVE DigitsValue(_, _)
DigitsValue(s, acc) ==
    IF s = <<>> THEN acc ELSE DigitsValue(Tail(s), 10 * acc + DigitVal(Head(s)))

AllDigits(s) == s # <<>> /\ \A i \in 1..Len(s) : IsDigit(s[i])

\* float(str) on the texts modelled (digits, sign, blanks, other characters):
\* surrounding whitespace is ignored, then an optional sign and at least one
\* digit; anything else raises ValueError ([ok |-> FALSE]).  The values are
\* whole numbers, which a float holds exactly.
Float(s) ==
    LET t == Strip(s)
        signed == t # <<>> /\ Head(t) \in {"-", "+"}
        digits == IF signed THEN Tail(t) ELSE t
    IN  IF AllDigits(digits)
        THEN [ok |-> TRUE,
              v |-> IF signed /\ Head(t) = "-" THEN 0 - DigitsValue(digits, 0)
                    ELSE DigitsValue(digits, 0)]
        ELSE [ok |-> FALSE, v |-> 0]

RECURSIVE NatStr(_)
NatStr(n) ==
    IF n < 10 THEN <<DigitChars[n + 1]>>
    ELSE NatStr(n \div 10) \o <<DigitChars[(n % 10) + 1]>>

\* str(number) for whole numbers
IntStr(n) == IF n < 0 THEN <<"-">> \o NatStr(0 - n) ELSE NatStr(n)

-----------------------------------------------------------------------------
(* Cells: what pandas holds for one cell of a sheet read with header=None. *)

NaN == [t |-> "nan", s |-> <<>>, n |-> 0]
Txt(s) == [t |-> "str", s |-> s, n |-> 0]
Num(n) == [t |-> "num", s |-> <<>>, n |-> n]
\* any other object (a datetime): not a str, and float() of it raises TypeError
Raw == [t |-> "raw", s |-> <<>>, n |-> 0]
\* Python None, the first_cell of a row without cells
NoCell == [t |-> "none", s |-> <<>>, n |-> 0]

\* pd.notna
NotNa(c) == c.t \notin {"nan", "none"}

\* str(cell) of a cell that is not NaN
Str(c) ==
    CASE c.t = "str" -> c.s
      [] c.t = "num" -> IntStr(c.n)
      [] OTHER -> <<"?">>

\* row.iloc[0] if len(row) > 0 else None
FirstCell(row) == IF Len(row) > 0 THEN row[1] ELSE NoCell

-----------------------------------------------------------------------------
(* DataFrames.  index holds the row labels (0-based, as pandas numbers     *)
(* them), columns the column labels, values the rows in order.             *)

DataFrame(index, columns, values) ==
    [index |-> index, columns |-> columns, values |-> values]

\* the frame of a sheet without cells: shape (0, 0)
EmptyFrame == DataFrame(<<>>, <<>>, <<>>)

NRows(df) == Len(df.values)

\* 0 .. n-1 as a sequence: a RangeIndex
RangeIndex(n) == [i \in 1..n |-> i - 1]

\* the positions 1 .. n, in order
OneTo(n) == [i \in 1..n |-> i]

Pick(seq, pos) == [j \in 1..Len(pos) |-> seq[pos[j]]]

\* Iloc with the stop row included
IlocThroughStop(df, start, stop) ==
    LET hi == IF stop + 1 > NRows(df) THEN NRows(df) ELSE stop + 1
    IN  DataFrame(SubSeq(df.index, start + 1, hi), df.columns,
                  SubSeq(df.values, start + 1, hi))

\* df.iloc[start:stop]: the rows at positions start .. stop-1 (0-based),
\* labels kept; a slice past the end is clipped
Iloc(df, start, stop) ==
    LET hi == IF stop > NRows(df) THEN NRows(df) ELSE stop
    IN  DataFrame(SubSeq(df.index, start + 1, hi), df.columns,
                  SubSeq(df.values, start + 1, hi))

\* df.dropna(how='all'): the rows whose cells are all NaN are removed
DropNaRows(df) ==
    LET keep(i) == \E j \in 1..Len(df.columns) : NotNa(df.values[i][j])
        pos == SelectSeq(OneTo(NRows(df)), keep)
    IN  DataFrame(Pick(df.index, pos), df.columns, Pick(df.values, pos))

\* DropNaCols with how='any': the columns holding any NaN are removed
DropNaColsAny(df) ==
    LET keep(j) == \A i \in 1..NRows(df) : NotNa(df.values[i][j])
        pos == SelectSeq(OneTo(Len(df.columns)), keep)
    IN  DataFrame(df.index, Pick(df.columns, pos),
                  [i \in 1..NRows(df) |-> Pick(df.values[i], pos)])

\* df.dropna(axis=1, how='all'): the columns whose cells are all NaN are removed
DropNaCols(df) ==
    LET keep(j) == \E i \in 1..NRows(df) : NotNa(df.values[i][j])
        pos == SelectSeq(OneTo(Len(df.columns)), keep)
    IN  DataFrame(df.index, Pick(df.columns, pos),
                  [i \in 1..NRows(df) |-> Pick(df.values[i], pos)])

\* df.reset_index(drop=True)
ResetIndex(df) == DataFrame(RangeIndex(NRows(df)), df.columns, df.values)

\* clean_table without the removal of the empty rows
CleanKeepRows(df) == ResetIndex(DropNaCols(df))

clean_table(df) == ResetIndex(DropNaCols(DropNaRows(df)))

-----------------------------------------------------------------------------
(* Python dicts, as the sequence of their items in insertion order.        *)

DictKeys(d) == [i \in 1..Len(d) |-> d[i].k]

DictHas(d, k) == \E i \in 1..Len(d) : d[i].k = k

DictGet(d, k) == d[CHOOSE i \in 1..Len(d) : d[i].k = k].v

\* DictSet as d.setdefault(k, v): a key already present keeps its value
DictSetDefault(d, k, v) ==
    IF DictHas(d, k) THEN d ELSE Append(d, [k |-> k, v |-> v])

\* d[k] = v: a key already present keeps its place and takes the new value,
\* a new key goes last
DictSet(d, k, v) ==
    IF DictHas(d, k)
    THEN [i \in 1..Len(d) |-> IF d[i].k = k THEN [k |-> k, v |-> v] ELSE d[i]]
    ELSE Append(d, [k |-> k, v |-> v])

\* d.update(e): d[k] = v for every item of e, in e's order
RECURSIVE DictUpdate(_, _)
DictUpdate(d, e) ==
    IF e = <<>> THEN d
    ELSE DictUpdate(DictSet(d, Head(e).k, Head(e).v), Tail(e))

-----------------------------------------------------------------------------
(* ExcelProcessor.identify_tables_in_sheet                                 *)

SheetPrefix == <<"S", "h", "e", "e", "t", "_">>
DefaultTable == <<"D", "e", "f", "a", "u", "l", "t", "_", "T", "a", "b", "l", "e">>

\* current_table_name = None, current_table_start = None
NoName == <<"None">>
NoStart == -1

\* pd.notna(first_cell) and isinstance(first_cell, str) and first_cell.strip()
IsHeader(first_cell) ==
    NotNa(first_cell) /\ first_cell.t = "str" /\ Strip(first_cell.s) # <<>>

\* TableOpen as "current_table_name and current_table_start": row 0 is falsy
TableOpenTruthyStart(name, start) ==
    name # NoName /\ name # <<>> /\ start # NoStart /\ start # 0

\* current_table_name and current_table_start is not None
TableOpen(name, start) == name # NoName /\ name # <<>> /\ start # NoStart

\* The loop over df.iterrows() from row position i on.  assigned is the
\* sequence of the assignments tables[name] = clean_table(table_df) made so
\* far, each kept with the table_df it was made from.
RECURSIVE ScanRows(_, _, _, _, _)
ScanRows(df, i, assigned, name, start) ==
    IF i > NRows(df) THEN [assigned |-> assigned, name |-> name, start |-> start]
    ELSE LET idx == df.index[i]
             first_cell == FirstCell(df.values[i])
         IN  IF IsHeader(first_cell)
             THEN ScanRows(df, i + 1,
                      IF TableOpen(name, start)
                      THEN Append(assigned,
                               [name |-> name, table_df |-> Iloc(df, start, idx)])
                      ELSE assigned,
                      Strip(first_cell.s), idx)
             ELSE ScanRows(df, i + 1, assigned, name, start)

\* FallbackName without the test of the sheet name
FallbackNameNoDefault(sheet_name) == SheetPrefix \o sheet_name

\* f"Sheet_{sheet_name}" if sheet_name else "Default_Table"
FallbackName(sheet_name) ==
    IF sheet_name # <<>> THEN SheetPrefix \o sheet_name ELSE DefaultTable

\* Every assignment to tables[...] that identify_tables_in_sheet makes, in
\* order: the tables closed by the loop, the last table, and, when there is
\* none of these ("if not tables"), the whole sheet under the fallback name.
TableAssignments(df, sheet_name) ==
    LET scan == ScanRows(df, 1, <<>>, NoName, NoStart)
        closed == IF TableOpen(scan.name, scan.start)
                  THEN Append(scan.assigned,
                           [name |-> scan.name,
                            table_df |-> Iloc(df, scan.start, NRows(df))])
                  ELSE scan.assigned
    IN  IF closed = <<>>
        THEN <<[name |-> FallbackName(sheet_name), table_df |-> df]>>
        ELSE closed

RECURSIVE AssignAll(_, _)
AssignAll(tables, assigned) ==
    IF assigned = <<>> THEN tables
    ELSE AssignAll(DictSet(tables, Head(assigned).name,
                       clean_table(Head(assigned).table_df)),
                   Tail(assigned))

identify_tables_in_sheet(df, sheet_name) ==
    AssignAll(<<>>, TableAssignments(df, sheet_name))

-----------------------------------------------------------------------------
(* ExcelProcessor.process_tables, load_excel_data, __init__                *)

\* excel_data is the dict sheet name -> frame, in sheet order
RECURSIVE ProcessSheets(_, _)
ProcessSheets(tables, excel_data) ==
    IF excel_data = <<>> THEN tables
    ELSE ProcessSheets(
             DictUpdate(tables,
                 identify_tables_in_sheet(Head(excel_data).v, Head(excel_data).k)),
             Tail(excel_data))

process_tables(excel_data) == ProcessSheets(<<>>, excel_data)

None == [none |-> TRUE, excel_data |-> <<>>, tables |-> <<>>]

\* ExcelProcessor(path): the object, or the HTTPException that
\* load_excel_data raises when the file is missing or cannot be read
ExcelProcessor(f) ==
    IF f.status = "ok"
    THEN [raised |-> FALSE,
          obj |-> [none |-> FALSE, excel_data |-> f.sheets,
                   tables |-> process_tables(f.sheets)]]
    ELSE [raised |-> TRUE, obj |-> None]

-----------------------------------------------------------------------------
(* The queries of ExcelProcessor.  A result is the value returned or the   *)
(* HTTPException raised (status 404).                                      *)

get_table_names(self) == DictKeys(self.tables)

RECURSIVE RowNames(_, _)
RowNames(df, i) ==
    IF i > NRows(df) THEN <<>>
    ELSE LET first_cell == FirstCell(df.values[i])
         IN  (IF NotNa(first_cell) THEN <<Str(first_cell)>> ELSE <<>>)
                 \o RowNames(df, i + 1)

get_table_row_names(self, table_name) ==
    IF ~DictHas(self.tables, table_name)
    THEN [status |-> 404, detail |-> "table not found", row_names |-> <<>>]
    ELSE LET df == DictGet(self.tables, table_name)
         IN  [status |-> 200, detail |-> "",
              row_names |-> IF NRows(df) = 0 \/ Len(df.columns) = 0 THEN <<>>
                            ELSE RowNames(df, 1)]

\* the position of the first row whose label is row_name, 0 when there is none
RECURSIVE FindRow(_, _, _)
FindRow(df, row_name, i) ==
    IF i > NRows(df) THEN 0
    ELSE LET first_cell == FirstCell(df.values[i])
         IN  IF NotNa(first_cell) /\ Str(first_cell) = row_name THEN i
             ELSE FindRow(df, row_name, i + 1)

\* CellValue with the text cells skipped
CellValueNumbersOnly(value) ==
    IF NotNa(value) /\ value.t = "num" THEN value.n ELSE 0

\* CellValue without .replace(',', '')
CellValueKeepComma(value) ==
    IF ~NotNa(value) THEN 0
    ELSE IF value.t = "str"
    THEN LET clean_value == Strip(Remove(Remove(value.s, "%"), "$"))
         IN  IF clean_value # <<>> /\ Float(clean_value).ok
             THEN Float(clean_value).v ELSE 0
    ELSE IF value.t = "num" THEN value.n
    ELSE 0

\* what one value of the row adds to numerical_sum
CellValue(value) ==
    IF ~NotNa(value) THEN 0
    ELSE IF value.t = "str"
    THEN LET clean_value == Strip(Remove(Remove(Remove(value.s, "%"), "$"), ","))
         IN  IF clean_value # <<>> /\ Float(clean_value).ok
             THEN Float(clean_value).v ELSE 0
    ELSE IF value.t = "num" THEN value.n
    ELSE 0

\* the loop over target_row.iloc[1:]
RECURSIVE SumFrom(_, _)
SumFrom(row, j) ==
    IF j > Len(row) THEN 0 ELSE CellValue(row[j]) + SumFrom(row, j + 1)

\* calculate_row_sum with the rows scanned before the table is looked up
RowSumScanFirst(self, table_name, row_name) ==
    LET df == IF DictHas(self.tables, table_name)
              THEN DictGet(self.tables, table_name) ELSE EmptyFrame
        target == FindRow(df, row_name, 1)
    IN  IF target = 0
        THEN [status |-> 404, detail |-> "row not found", sum |-> 0]
        ELSE [status |-> 200, detail |-> "", sum |-> SumFrom(df.values[target], 2)]

calculate_row_sum(self, table_name, row_name) ==
    IF ~DictHas(self.tables, table_name)
    THEN [status |-> 404, detail |-> "table not found", sum |-> 0]
    ELSE LET df == DictGet(self.tables, table_name)
             target == FindRow(df, row_name, 1)
         IN  IF target = 0
             THEN [status |-> 404, detail |-> "row not found", sum |-> 0]
             ELSE [status |-> 200, detail |-> "",
                   sum |-> SumFrom(df.values[target], 2)]

-----------------------------------------------------------------------------
(* The workbooks enumerated.  A generated sheet has one column; its cells  *)
(* are empty, a header text (plain, with a leading blank, or equal to the  *)
(* fallback name of the second sheet) or a number.                         *)

\* the name of the i-th sheet: "S1", "S2", ...
SheetName(i) == <<"S", DigitChars[i + 1]>>

FirstCells ==
    {NaN, Txt(<<"A">>), Txt(<<" ", "A">>), Txt(SheetPrefix \o SheetName(2)), Num(7)}

\* the frame pandas builds from rows of cells read with header=None
Frame(rows) ==
    IF rows = <<>> THEN EmptyFrame
    ELSE DataFrame(RangeIndex(Len(rows)), RangeIndex(Len(rows[1])), rows)

\* the rows of cells from position lo to position hi
Rows(cells, lo, hi) == [i \in 1..(hi - lo + 1) |-> <<cells[lo + i - 1]>>]

\* the number of rows of the sheets before the i-th
RECURSIVE RowsBefore(_, _)
RowsBefore(counts, i) ==
    IF i = 1 THEN 0 ELSE RowsBefore(counts, i - 1) + counts[i - 1]

\* one column of cells cut into one-column sheets of counts[i] rows each
Sheets(cells, counts) ==
    [i \in 1..Len(counts) |->
        Frame(Rows(cells, RowsBefore(counts, i) + 1, RowsBefore(counts, i + 1)))]

Named(frames) == [i \in 1..Len(frames) |-> [k |-> SheetName(i), v |-> frames[i]]]

\* the sheet of the scenario: ("Revenue","100","200"), ("Costs","-50","-30")
ScenarioBook ==
    Named(<<Frame(<<
        <<Txt(<<"R", "e", "v", "e", "n", "u", "e">>), Txt(<<"1", "0", "0">>),
          Txt(<<"2", "0", "0">>)>>,
        <<Txt(<<"C", "o", "s", "t", "s">>), Txt(<<"-", "5", "0">>),
          Txt(<<"-", "3", "0">>)>> >>)>>)

\* a sheet with an empty row on top, an empty column and a numbered row
LedgerBook ==
    Named(<<Frame(<<
        <<NaN, NaN, NaN>>,
        <<Txt(<<"Q">>), NaN, Num(4)>>,
        <<Num(7), NaN, Txt(<<"1", ",", "0">>)>> >>)>>)

\* the workbook resource: missing, unreadable, one of the two workbooks
\* above, or at most MaxSheets one-column sheets of MaxTotalRows rows in all
IsFile(f) ==
    \/ \E st \in {"missing", "unreadable"} : f = [status |-> st, sheets |-> <<>>]
    \/ \E wb \in {ScenarioBook, LedgerBook} : f = [status |-> "ok", sheets |-> wb]
    \/ \E n \in 0..MaxTotalRows : \E cells \in [1..n -> FirstCells] :
       \E s \in 1..MaxSheets : \E counts \in [1..s -> 0..n] :
          /\ RowsBefore(counts, s + 1) = n
          /\ f = [status |-> "ok", sheets |-> Named(Sheets(cells, counts))]

-----------------------------------------------------------------------------
(* The service: startup_event and the request handlers.  A handler passes  *)
(* on the HTTPException of the processor; its "except Exception" branch    *)
(* (a 500 with the error text) is taken by no call, since the processor's  *)
(* methods raise nothing else.                                             *)

Response(op, status, detail, table_name, row_name, names, sum, flag) ==
    [op |-> op, status |-> status, detail |-> detail, table_name |-> table_name,
     row_name |-> row_name, names |-> names, sum |-> sum, flag |-> flag]

NoResponse == Response("none", 0, "", <<>>, <<>>, <<>>, 0, FALSE)

NoCall == [fn |-> "none", in |-> <<>>, out |-> <<>>]

\* raise HTTPException(status_code=500, detail="Excel processor not initialized")
NotInitialized(op, table_name, row_name) ==
    Response(op, 500, "not initialized", table_name, row_name, <<>>, 0, FALSE)

\* the names requests are made with: every table name and row label of the
\* store, and two names chosen apart from them
RequestNames ==
    {<<"A">>, <<"Z">>}
        \cup {excel_processor.tables[i].k : i \in 1..Len(excel_processor.tables)}
        \cup UNION {{RowNames(excel_processor.tables[i].v, 1)[j] :
                        j \in 1..Len(RowNames(excel_processor.tables[i].v, 1))} :
                    i \in 1..Len(excel_processor.tables)}

Init ==
    /\ IsFile(file)
    /\ excel_processor = None
    /\ pc = "boot"
    /\ response = NoResponse
    /\ loads = 0
    /\ call = NoCall

\* Startup with a processor without tables put in place when the load fails
StartupWithMock ==
    /\ pc = "boot"
    /\ LET made == ExcelProcessor(file)
       IN  excel_processor' = IF made.raised
                              THEN [none |-> FALSE, excel_data |-> <<>>, tables |-> <<>>]
                              ELSE made.obj
    /\ loads' = loads + 1
    /\ pc' = "serving"
    /\ UNCHANGED <<file, response, call>>

\* startup_event: excel_processor = ExcelProcessor(EXCEL_FILE_PATH), or None
\* when the constructor raises
Startup ==
    /\ pc = "boot"
    /\ LET made == ExcelProcessor(file)
       IN  excel_processor' = IF made.raised THEN None ELSE made.obj
    /\ loads' = loads + 1
    /\ pc' = "serving"
    /\ UNCHANGED <<file, response, call>>

\* GET /
Root ==
    /\ pc = "serving"
    /\ response' = Response("root", 200, "", <<>>, <<>>, <<>>, 0, FALSE)
    /\ UNCHANGED <<file, excel_processor, pc, loads, call>>

\* GET /list_tables
ListTables ==
    /\ pc = "serving"
    /\ response' =
           IF excel_processor.none THEN NotInitialized("list_tables", <<>>, <<>>)
           ELSE Response("list_tables", 200, "", <<>>, <<>>,
                         get_table_names(excel_processor), 0, FALSE)
    /\ UNCHANGED <<file, excel_processor, pc, loads, call>>

\* GET /get_table_details?table_name=...
GetTableDetails(table_name) ==
    /\ pc = "serving"
    /\ response' =
           IF excel_processor.none
           THEN NotInitialized("get_table_details", table_name, <<>>)
           ELSE LET r == get_table_row_names(excel_processor, table_name)
                IN  Response("get_table_details", r.status, r.detail, table_name,
                             <<>>, r.row_names, 0, FALSE)
    /\ UNCHANGED <<file, excel_processor, pc, loads, call>>

\* GET /row_sum?table_name=...&row_name=...
RowSum(table_name, row_name) ==
    /\ pc = "serving"
    /\ response' =
           IF excel_processor.none THEN NotInitialized("row_sum", table_name, row_name)
           ELSE LET r == calculate_row_sum(excel_processor, table_name, row_name)
                IN  Response("row_sum", r.status, r.detail, table_name, row_name,
                             <<>>, r.sum, FALSE)
    /\ UNCHANGED <<file, excel_processor, pc, loads, call>>

\* GET /health
HealthCheck ==
    /\ pc = "serving"
    /\ response' = Response("health", 200, "", <<>>, <<>>, <<>>, 0,
                            ~excel_processor.none)
    /\ UNCHANGED <<file, excel_processor, pc, loads, call>>

Next ==
    \/ Startup
    \/ Root
    \/ ListTables
    \/ \E t \in RequestNames : GetTableDetails(t)
    \/ \E t \in RequestNames : \E r \in RequestNames : RowSum(t, r)
    \/ HealthCheck

Spec == Init /\ [][Next]_vars

-----------------------------------------------------------------------------
(* The methods of ExcelProcessor called on their own, on enumerated        *)
(* arguments.  call.out is <<>> before the call and holds the results      *)
(* after it.                                                               *)

NoFile == [status |-> "missing", sheets |-> <<>>]

Calling(fn, in) ==
    /\ file = NoFile
    /\ excel_processor = None
    /\ pc = "call"
    /\ response = NoResponse
    /\ loads = 0
    /\ call = [fn |-> fn, in |-> in, out |-> <<>>]

Returns(results) ==
    /\ call' = [call EXCEPT !.out = results]
    /\ UNCHANGED <<file, excel_processor, pc, response, loads>>

(* identify_tables_in_sheet(df, sheet_name): sheets of two columns, the    *)
(* first cell empty, blank text, a header text (two of them equal once     *)
(* trimmed) or a number.                                                   *)

SegFirstCells ==
    {NaN, Txt(<<" ">>), Txt(<<"A">>), Txt(<<" ", "A", " ">>), Txt(<<"B">>), Num(7)}

SegOtherCells == {NaN, Num(5)}

SegInit ==
    \E r \in 0..MaxSegRows : \E a \in [1..r -> SegFirstCells] :
    \E b \in [1..r -> SegOtherCells] : \E n \in {<<>>, SheetName(1)} :
        Calling("identify_tables_in_sheet",
                [df |-> Frame([i \in 1..r |-> <<a[i], b[i]>>]), sheet_name |-> n])

IdentifyTablesInSheet ==
    /\ call.fn = "identify_tables_in_sheet"
    /\ call.out = <<>>
    /\ Returns(<<[assigned |-> TableAssignments(call.in.df, call.in.sheet_name),
                  tables |-> identify_tables_in_sheet(call.in.df, call.in.sheet_name)]>>)

SegNext == IdentifyTablesInSheet

SegSpec == SegInit /\ [][SegNext]_vars

(* clean_table(df), and clean_table of its result: frames as iloc slices   *)
(* hand them over, their labels starting at 0 or further down the sheet.   *)

CleanCells == {NaN, Txt(<<"a">>), Num(1)}

CleanInit ==
    \/ Calling("clean_table", EmptyFrame)
    \/ \E r \in 1..MaxCleanRows : \E c \in 1..MaxCleanCols :
       \E rows \in [1..r -> [1..c -> CleanCells]] : \E first \in {0, 1} :
           Calling("clean_table",
                   DataFrame([i \in 1..r |-> first + i - 1], RangeIndex(c), rows))

CleanOnce ==
    /\ call.fn = "clean_table"
    /\ call.out = <<>>
    /\ Returns(<<clean_table(call.in)>>)

CleanAgain ==
    /\ call.fn = "clean_table"
    /\ Len(call.out) = 1
    /\ Returns(Append(call.out, clean_table(call.out[1])))

CleanNext == CleanOnce \/ CleanAgain

CleanSpec == CleanInit /\ [][CleanNext]_vars

(* calculate_row_sum(table_name, row_name) on a store of one table "T":    *)
(* rows labelled "A" or "B", value cells empty, numeric, other objects, or *)
(* texts with and without blanks, '%', '$' and ','.                        *)

T1200 == <<"1", "2", "0", "0">>

SumCells ==
    {NaN, Num(-3), Raw, Txt(T1200), Txt(<<" ", "1", ",", "2", "0", "0", " ">>),
     Txt(T1200 \o <<"%">>), Txt(<<"x">>), Txt(<<" ", "$", " ">>)}

SumLabels == {Txt(<<"A">>), Txt(<<"B">>)}

SumInit ==
    \E r \in 1..MaxSumCells : \E c \in {k \in 1..MaxSumCells : r * k <= MaxSumCells} :
    \E lab \in [1..r -> SumLabels] : \E vals \in [1..r -> [1..c -> SumCells]] :
    \E n \in {<<"A">>, <<"B">>} :
        Calling("calculate_row_sum",
               [self |-> [none |-> FALSE, excel_data |-> <<>>,
                          tables |-> <<[k |-> <<"T">>,
                              v |-> Frame([i \in 1..r |-> <<lab[i]>> \o vals[i]])]>>],
                table_name |-> <<"T">>, row_name |-> n])

CalculateRowSum ==
    /\ call.fn = "calculate_row_sum"
    /\ call.out = <<>>
    /\ Returns(<<calculate_row_sum(call.in.self, call.in.table_name, call.in.row_name)>>)

SumNext == CalculateRowSum

SumSpec == SumInit /\ [][SumNext]_vars

-----------------------------------------------------------------------------
(* Properties.                                                             *)

SeqSet(seq) == {seq[i] : i \in 1..Len(seq)}

\* a table-start marker row, as the specification words it: the first cell
\* is text and holds a character that is not a blank
IsMarkerRow(row) ==
    /\ Len(row) > 0
    /\ row[1].t = "str"
    /\ \E i \in 1..Len(row[1].s) : row[1].s[i] # " "

Markers(df) == {m \in 1..NRows(df) : IsMarkerRow(df.values[m])}

MarkerText(df, m) == Strip(df.values[m][1].s)

AllEmpty(df) ==
    \A i \in 1..NRows(df) : \A j \in 1..Len(df.values[i]) : df.values[i][j] = NaN

\* the assignments to a table name of every sheet, in sheet order, each with
\* the sheet it was made for
RECURSIVE SheetAssignments(_)
SheetAssignments(excel_data) ==
    IF excel_data = <<>> THEN <<>>
    ELSE LET made == TableAssignments(Head(excel_data).v, Head(excel_data).k)
         IN  [i \in 1..Len(made) |->
                 [name |-> made[i].name, table_df |-> made[i].table_df,
                  sheet |-> Head(excel_data).v]]
             \o SheetAssignments(Tail(excel_data))

FirstIndex(made, name) ==
    CHOOSE i \in 1..Len(made) :
        made[i].name = name /\ \A j \in 1..(i - 1) : made[j].name # name

LastIndex(made, name) ==
    CHOOSE i \in 1..Len(made) :
        made[i].name = name /\ \A j \in (i + 1)..Len(made) : made[j].name # name

Built == pc = "serving" /\ ~excel_processor.none

Revenue == <<"R", "e", "v", "e", "n", "u", "e">>
Costs == <<"C", "o", "s", "t", "s">>

InScenario == Built /\ file.sheets = ScenarioBook

Answered(op, table_name, row_name) ==
    response.op = op /\ response.table_name = table_name /\ response.row_name = row_name

(* C1 as stated: for the workbook of the two rows ("Revenue","100","200")  *)
(* and ("Costs","-50","-30"), list_tables returns exactly one table T,     *)
(* the row labels of T are Revenue and Costs, and the rows of T sum to 300 *)
(* and -80.                                                                *)
C1_ScenarioOneTable ==
    InScenario =>
        LET T == get_table_names(excel_processor)[1]
        IN  /\ response.op = "list_tables" => Len(response.names) = 1
            /\ Answered("get_table_details", T, <<>>)
                   => response.names = <<Revenue, Costs>>
            /\ Answered("row_sum", T, Revenue)
                   => response.status = 200 /\ response.sum = 300
            /\ Answered("row_sum", T, Costs)
                   => response.status = 200 /\ response.sum = -80

(* C1 amended: for that workbook list_tables returns the two tables        *)
(* Revenue and Costs, in this order, each row being a marker row; each     *)
(* table has its own name as its only row label; row Revenue of table      *)
(* Revenue sums to 300 and row Costs of table Costs to -80; row Costs of   *)
(* table Revenue is not found.                                             *)
C1_ScenarioTwoTables ==
    InScenario =>
        /\ response.op = "list_tables" => response.names = <<Revenue, Costs>>
        /\ Answered("get_table_details", Revenue, <<>>)
               => response.status = 200 /\ response.names = <<Revenue>>
        /\ Answered("get_table_details", Costs, <<>>)
               => response.status = 200 /\ response.names = <<Costs>>
        /\ Answered("row_sum", Revenue, Revenue)
               => response.status = 200 /\ response.sum = 300
        /\ Answered("row_sum", Costs, Costs)
               => response.status = 200 /\ response.sum = -80
        /\ Answered("row_sum", Revenue, Costs)
               => response.status = 404 /\ response.detail = "row not found"

C1_Witness ==
    InScenario /\ Answered("row_sum", Costs, Costs) /\ response.sum = -80

(* C2 as stated: after a successful build every table held in the store    *)
(* has at least one row.                                                   *)
C2_EveryTableHasARow ==
    Built => \A i \in 1..Len(excel_processor.tables) :
                 NRows(excel_processor.tables[i].v) >= 1

(* C2 amended: after a successful build a table held in the store has at   *)
(* least one row, unless it is the fallback table of a sheet that has no   *)
(* marker row and no non-empty cell (a sheet of zero rows or of empty      *)
(* cells only): that table is held with zero rows.                         *)
C2_RowsUnlessEmptySheet ==
    Built =>
        LET made == SheetAssignments(excel_processor.excel_data)
        IN  \A i \in 1..Len(excel_processor.tables) :
                LET sheet == made[LastIndex(made, excel_processor.tables[i].k)].sheet
                IN  NRows(excel_processor.tables[i].v) >= 1
                        <=> ~(Markers(sheet) = {} /\ AllEmpty(sheet))

C2_Witness ==
    /\ Built
    /\ \E i \in 1..Len(excel_processor.tables) :
           NRows(excel_processor.tables[i].v) = 0
    /\ \E i \in 1..Len(excel_processor.tables) :
           NRows(excel_processor.tables[i].v) >= 1
    /\ \E i \in 1..Len(excel_processor.excel_data) :
           NRows(excel_processor.excel_data[i].v) >= 1
               /\ AllEmpty(excel_processor.excel_data[i].v)

C7_NotFound ==
    Built =>
        LET names == SeqSet(DictKeys(excel_processor.tables))
        IN  /\ (response.op \in {"get_table_details", "row_sum"}
                    /\ response.table_name \notin names)
                   => response.status = 404 /\ response.detail = "table not found"
            /\ (response.op = "row_sum" /\ response.table_name \in names
                    /\ response.row_name \notin
                           SeqSet(RowNames(DictGet(excel_processor.tables,
                                                   response.table_name), 1)))
                   => response.status = 404 /\ response.detail = "row not found"

C7_Witness ==
    /\ Built
    /\ response.op = "row_sum"
    /\ response.table_name \in SeqSet(DictKeys(excel_processor.tables))
    /\ NRows(DictGet(excel_processor.tables, response.table_name)) >= 1
    /\ response.detail = "row not found"

(* C9: list_tables returns every derived table name once, ordered by the   *)
(* first assignment of the name (marker order within a sheet, sheets in    *)
(* order); the table held and queried under a name is the cleaned          *)
(* sub-grid of the last assignment of that name.                           *)
C9_OrderAndLastWins ==
    Built =>
        LET made == SheetAssignments(excel_processor.excel_data)
            tables == excel_processor.tables
            names == DictKeys(tables)
            last(n) == clean_table(made[LastIndex(made, n)].table_df)
        IN  /\ SeqSet(names) = {made[i].name : i \in 1..Len(made)}
            /\ \A i, j \in 1..Len(names) :
                   i < j => /\ names[i] # names[j]
                            /\ FirstIndex(made, names[i]) < FirstIndex(made, names[j])
            /\ \A i \in 1..Len(tables) : tables[i].v = last(tables[i].k)
            /\ response.op = "list_tables" => response.names = names
            /\ (response.op = "get_table_details"
                    /\ response.table_name \in SeqSet(names))
                   => response.names = RowNames(last(response.table_name), 1)

C9_Witness ==
    /\ Built
    /\ response.op = "get_table_details"
    /\ LET made == SheetAssignments(excel_processor.excel_data)
           n == response.table_name
       IN  /\ Len(excel_processor.tables) >= 2
           /\ \E i, j \in 1..Len(made) :
                  /\ i < j
                  /\ made[i].name = n
                  /\ made[j].name = n
                  /\ clean_table(made[i].table_df) # clean_table(made[j].table_df)
                  /\ made[i].sheet # made[j].sheet

Identified == call.fn = "identify_tables_in_sheet" /\ call.out # <<>>

\* {m .. n-1}: the row labels of positions m .. n; the label of the row at
\* position m is m - 1
RowRange(df, m, n) ==
    DataFrame([j \in 1..(n - m) |-> m + j - 2], df.columns,
              [j \in 1..(n - m) |-> df.values[m + j - 1]])

\* the position of the marker row after m, or one past the last row
NextMarker(df, m) ==
    IF \E n \in Markers(df) : n > m
    THEN CHOOSE n \in Markers(df) : n > m /\ \A k \in Markers(df) : k > m => n <= k
    ELSE NRows(df) + 1

DistinctMarkers(df) ==
    \A m, n \in Markers(df) : m # n => MarkerText(df, m) # MarkerText(df, n)

\* the rows (labels) of the sub-grid the table called name was cleaned from
SubGridRows(out, name) ==
    SeqSet(out.assigned[LastIndex(out.assigned, name)].table_df.index)

TablesHolding(out, r) ==
    {i \in 1..Len(out.tables) : r \in SubGridRows(out, out.tables[i].k)}

Contiguous(out) ==
    \A i \in 1..Len(out.assigned) :
        LET index == out.assigned[i].table_df.index
        IN  \A j \in 1..(Len(index) - 1) : index[j + 1] = index[j] + 1

(* C3: for a sheet without marker row identify_tables_in_sheet returns     *)
(* exactly one table, cleaned from all the rows of the sheet, named        *)
(* "Sheet_<sheet name>", or "Default_Table" when the sheet name is empty.  *)
C3_NoMarkerOneTable ==
    (Identified /\ Markers(call.in.df) = {}) =>
        LET out == call.out[1]
        IN  /\ Len(out.tables) = 1
            /\ Len(out.assigned) = 1
            /\ out.assigned[1].table_df = call.in.df
            /\ out.tables[1].v = clean_table(call.in.df)
            /\ out.tables[1].k = out.assigned[1].name
            /\ out.tables[1].k =
                   IF call.in.sheet_name = <<>> THEN DefaultTable
                   ELSE <<"S", "h", "e", "e", "t", "_">> \o call.in.sheet_name

C3_Witness ==
    /\ Identified
    /\ Markers(call.in.df) = {}
    /\ NRows(call.in.df) >= 2
    /\ call.in.sheet_name = <<>>
    /\ call.in.df.values[1][1] = Txt(<<" ">>)
    /\ call.in.df.values[2][1] = Num(7)

(* C4 as stated: every row of the sheet, the rows above the first marker   *)
(* row included, belongs to the sub-grid of exactly one table of the       *)
(* sheet, and every sub-grid is a contiguous row range.                    *)
C4_EveryRowInOneTable ==
    Identified =>
        /\ Contiguous(call.out[1])
        /\ \A r \in 0..(NRows(call.in.df) - 1) :
               Cardinality(TablesHolding(call.out[1], r)) = 1

(* C4 amended: every sub-grid is a contiguous row range and no row belongs *)
(* to two of them; a row belongs to one exactly when the sheet has no      *)
(* marker row, or the row is at or below a marker row and no later marker  *)
(* row of the sheet has the same trimmed text as the nearest marker row at *)
(* or above it.  The rows above the first marker row, and the rows of a    *)
(* table that a later marker of the same name replaces, belong to none.    *)
C4_RowsFromFirstMarker ==
    Identified =>
        LET df == call.in.df
            out == call.out[1]
            kept(r) ==
                \E m \in Markers(df) :
                    /\ m <= r + 1
                    /\ NextMarker(df, m) > r + 1
                    /\ \A n \in Markers(df) :
                           n > m => MarkerText(df, n) # MarkerText(df, m)
        IN  /\ Contiguous(out)
            /\ \A r \in 0..(NRows(df) - 1) :
                   /\ Cardinality(TablesHolding(out, r)) <= 1
                   /\ Cardinality(TablesHolding(out, r)) = 1
                          <=> (Markers(df) = {} \/ kept(r))

C4_Witness ==
    /\ Identified
    /\ 1 \notin Markers(call.in.df)
    /\ 2 \in Markers(call.in.df)
    /\ 3 \in Markers(call.in.df)
    /\ TablesHolding(call.out[1], 0) = {}
    /\ Len(call.out[1].tables) = 2

(* C5: for a sheet whose marker rows m1 < ... < mk have pairwise distinct  *)
(* trimmed texts identify_tables_in_sheet returns exactly k tables; the    *)
(* table named by the trimmed text of marker mi is cleaned from exactly    *)
(* the rows [mi, m(i+1)), the last one from [mk, end of sheet); a marker   *)
(* row directly followed by a marker row gives a table of its own row.     *)
C5_MarkerRanges ==
    (Identified /\ Markers(call.in.df) # {} /\ DistinctMarkers(call.in.df)) =>
        LET df == call.in.df
            out == call.out[1]
        IN  /\ Len(out.tables) = Cardinality(Markers(df))
            /\ Len(out.assigned) = Cardinality(Markers(df))
            /\ \A m \in Markers(df) :
                   LET grid == RowRange(df, m, NextMarker(df, m))
                   IN  /\ \E i \in 1..Len(out.assigned) :
                              out.assigned[i] =
                                  [name |-> MarkerText(df, m), table_df |-> grid]
                       /\ \E i \in 1..Len(out.tables) :
                              out.tables[i] =
                                  [k |-> MarkerText(df, m), v |-> clean_table(grid)]

C5_Witness ==
    /\ Identified
    /\ DistinctMarkers(call.in.df)
    /\ Markers(call.in.df) = {1, 2}
    /\ NRows(call.in.df) = 3
    /\ \E i \in 1..2 : NRows(call.out[1].assigned[i].table_df) = 1
    /\ \E i \in 1..2 : NRows(call.out[1].assigned[i].table_df) = 2

CleanedTwice == call.fn = "clean_table" /\ Len(call.out) = 2

(* C8: clean_table(clean_table(g)) is identical to clean_table(g): the     *)
(* same rows, columns, order and row labels 0 .. n-1; the cleaned grid has *)
(* no row that is entirely empty.                                          *)
C8_CleanIdempotent ==
    CleanedTwice =>
        /\ call.out[2] = call.out[1]
        /\ call.out[1].index = RangeIndex(NRows(call.out[1]))
        /\ \A i \in 1..NRows(call.out[1]) :
               \E j \in 1..Len(call.out[1].values[i]) :
                   call.out[1].values[i][j] # NaN

C8_Witness ==
    /\ CleanedTwice
    /\ NRows(call.in) = 2
    /\ Len(call.in.columns) = 2
    /\ call.in.index[1] = 1
    /\ NRows(call.out[1]) = 1
    /\ Len(call.out[1].columns) = 1
    /\ call.out[1].columns = <<1>>

Summed == call.fn = "calculate_row_sum" /\ call.out # <<>>

\* what each enumerated cell is to contribute, as the specification words it
Contribution(cell) ==
    CASE cell = Txt(<<"1", "2", "0", "0">>) -> 1200
      [] cell = Txt(<<" ", "1", ",", "2", "0", "0", " ">>) -> 1200
      [] cell = Txt(<<"1", "2", "0", "0", "%">>) -> 1200
      [] cell = Num(-3) -> -3
      [] cell = NaN -> 0
      [] cell = Txt(<<"x">>) -> 0
      [] cell = Txt(<<" ", "$", " ">>) -> 0
      [] cell = Raw -> 0

RECURSIVE Contributions(_, _)
Contributions(row, j) ==
    IF j > Len(row) THEN 0 ELSE Contribution(row[j]) + Contributions(row, j + 1)

Labelled(df, row_name) == {i \in 1..NRows(df) : df.values[i][1] = Txt(row_name)}

(* C10: when row_name is a row label of the table, sum_row returns the sum *)
(* over the cells but the first of the first row so labelled, a numeric    *)
(* cell adding its value, a text cell the number parsed once '%', '$',     *)
(* ',' and surrounding blanks are removed (" 1,200 ", "1200" and "1200%"   *)
(* add the same 1200), an empty cell and a blank or unparsable text 0.     *)
C10_SumOfFirstMatch ==
    (Summed /\ Labelled(call.in.self.tables[1].v, call.in.row_name) # {}) =>
        LET df == call.in.self.tables[1].v
            rows == Labelled(df, call.in.row_name)
            first == CHOOSE i \in rows : \A k \in rows : i <= k
        IN  /\ call.out[1].status = 200
            /\ call.out[1].sum = Contributions(df.values[first], 2)

C10_Witness ==
    /\ Summed
    /\ LET df == call.in.self.tables[1].v
       IN  /\ NRows(df) = 3
           /\ Labelled(df, call.in.row_name) = {2, 3}
           /\ df.values[2][2] = Txt(<<" ", "1", ",", "2", "0", "0", " ">>)
           /\ df.values[3][2] = Num(-3)
    /\ call.out[1].sum = 1200

====
